---- MODULE Spec2Model ----
(***************************************************************************)
(* State-machine model of programs/zk-lending-protocol/src/lib.rs.         *)
(*                                                                         *)
(* Number representation.  A u64 value x is held as the integer x when x   *)
(* lies in the low band [0, 2^31) and as x - 2^64 (a negative integer)     *)
(* when it lies in the high band (2^64 - 2^31, 2^64).  So -1 is u64::MAX.  *)
(* The checked/saturating operators below give the exact u64 result on     *)
(* these two bands; the bounds keep every value inside them.  Amounts that *)
(* the code divides (borrow and repay amounts, debts, ledger totals) are   *)
(* always drawn from the low band.  An i64 (the clock, a timestamp) is the *)
(* integer itself.                                                         *)
(***************************************************************************)
EXTENDS Integers, Sequences, FiniteSets, TLC

VARIABLES
    now,               \* Clock::get().unix_timestamp
    created,           \* the records that exist as accounts of the program
    protocol_state,    \* the ProtocolState record
    protocol_treasury, \* the ProtocolTreasury record
    lending_pool,      \* the LendingPool record
    collateral_pool,   \* the CollateralPool record
    institutional_pool,\* the InstitutionalLendingPool record
    delegated_borrower,\* the DelegatedBorrower record
    borrower_accounts, \* BorrowerAccount records, by address
    governance,        \* Governance records, by address (created by propose_change)
    last,              \* the last instruction processed, its result and the
                       \* tokens it released to the borrower
    borrowed_at,       \* history: time of the latest successful borrow, by address
    repaid_since       \* history: a repay succeeded since that borrow, by address

ledger == <<created, protocol_state, protocol_treasury, lending_pool, collateral_pool,
            institutional_pool, delegated_borrower, borrower_accounts, governance>>
vars == <<now, created, protocol_state, protocol_treasury, lending_pool, collateral_pool,
          institutional_pool, delegated_borrower, borrower_accounts, governance,
          last, borrowed_at, repaid_since>>

----------------------------------------------------------------------------
(* Bounds of the model *)

\* The clock value of the first state.
StartTime == 1000
\* Largest low-band collateral a stake or rebalance may build up.
MaxCollateral == 1000
\* Largest total_liquidity a repay may build up.
MaxLiquidity == 840
\* Largest treasury fee total a borrow may build up.
MaxFees == 8
\* Largest lender reward total a repay may build up.
MaxRewards == 8
\* Largest vote tally, and how far below zero the tally may go.
MaxVotes == 2
MaxDownVotes == 0

(* Program constants *)
LOCK_TIME == 600
BASE_RATE == 5
SECONDS_PER_YEAR == 31536000
FEE_DIVISOR == 100
\* The data space the `init` constraints declare, after the 8-byte
\* discriminator: Initialize gives ProtocolState 32 and ProtocolTreasury 16,
\* ProposeChange gives Governance 8 + 1 + 8 + 8.
PROTOCOL_STATE_SPACE == 32
PROTOCOL_TREASURY_SPACE == 16
GOVERNANCE_SPACE == 25

U64_MAX == 0 - 1

Signers == {"alice", "bob"}
Addresses == {"acctA"}
\* A second borrower account, used by the two-account specification only.
OtherAddresses == {"acctB"}
AllAddresses == Addresses \cup OtherAddresses
TimePoints == {StartTime, StartTime + LOCK_TIME - 1, StartTime + LOCK_TIME,
               StartTime + SECONDS_PER_YEAR}
StakeAmounts == {400, 1000}
RebalanceAmounts == {400, U64_MAX}
BorrowAmounts == {400, 830}
DelegatedAmounts == {400, 401}
RepayAmounts == {400, 420}
\* What the second account borrows: 20 fits in what a first loan of 400 leaves.
OtherBorrowAmounts == {20, 400}
GovAddresses == {"gov"}
ProposalTypes == {1}
NewValues == {10}
ProposalIds == {1, 2}

----------------------------------------------------------------------------
(* u64 arithmetic of the Rust standard library, on the two bands *)

IsHigh(x) == x < 0

Some(x) == [some |-> TRUE, val |-> x]
None == [some |-> FALSE, val |-> 0]

\* a <= b as u64
u64_le(a, b) == IF IsHigh(a) = IsHigh(b) THEN a <= b ELSE IsHigh(b)

\* u64::checked_add
checked_add(a, b) ==
    IF IsHigh(a) /\ IsHigh(b) THEN None
    ELSE IF IsHigh(a) \/ IsHigh(b)
         THEN (IF a + b >= 0 THEN None ELSE Some(a + b))
         ELSE Some(a + b)

\* u64::checked_sub
checked_sub(a, b) == IF u64_le(b, a) THEN Some(a - b) ELSE None

\* u64::saturating_sub
saturating_sub(a, b) == IF u64_le(b, a) THEN a - b ELSE 0

\* i64::checked_add and i64::checked_sub; the tally stays far from the i64 limits.
i64_checked_add(a, b) == Some(a + b)
i64_checked_sub(a, b) == Some(a - b)

\* u64::checked_div (low band)
checked_div(a, d) == IF d = 0 THEN None ELSE Some(a \div d)

\* <<q, r>> with a * b = q * c + r and 0 <= r < c, for a, b >= 0 and c > 0,
\* computed by doubling so that no intermediate exceeds 2 * c.
RECURSIVE mul_divmod(_, _, _)
mul_divmod(a, b, c) ==
    IF b = 0 THEN <<0, 0>>
    ELSE LET h  == mul_divmod(a, b \div 2, c)
             r1 == h[2]
             c1 == IF r1 >= c - r1 THEN 1 ELSE 0
             r2 == IF c1 = 1 THEN r1 - (c - r1) ELSE r1 + r1
             q2 == 2 * h[1] + c1
             qa == a \div c
             ra == a % c
             c2 == IF r2 >= c - ra THEN 1 ELSE 0
         IN IF b % 2 = 0 THEN <<q2, r2>>
            ELSE <<q2 + qa + c2, IF c2 = 1 THEN r2 - (c - ra) ELSE r2 + ra>>

----------------------------------------------------------------------------
(* Helper functions of lib.rs *)

verify_zk_proof(zk_proof) == TRUE

update_encrypted_value(current, amount, add) ==
    IF add
    THEN LET s == checked_add(current, amount)
         IN IF s.some THEN s.val ELSE current
    ELSE saturating_sub(current, amount)

\* Variant: a strict comparison.
has_sufficient_collateral_strict(encrypted_collateral, amount) ==
    ~u64_le(encrypted_collateral, amount)

has_sufficient_collateral(encrypted_collateral, amount) ==
    u64_le(amount, encrypted_collateral)

reset_encryption == 0

extract_value_from_encryption(encrypted) == encrypted

\* (total_loans as u128 * 100 / total_liquidity as u128) as u8
calculate_utilization(total_loans, total_liquidity) ==
    IF total_liquidity = 0 THEN 0
    ELSE ((total_loans * 100) \div total_liquidity) % 256

----------------------------------------------------------------------------
(* Handlers.  A handler works on the deserialized accounts `acc` of its    *)
(* context and returns its result together with those accounts as they are *)
(* in memory at the return.  The token program's transfer (a cross-program *)
(* call on token accounts, which are not records of this program) is taken *)
(* to succeed.                                                             *)

Ok(acc) == [res |-> "Ok", acc |-> acc]
Err(e, acc) == [res |-> e, acc |-> acc]

initialize_state ==
    [total_collateral |-> 0, total_loans |-> 0, total_liquidity |-> 0,
     base_interest_rate |-> BASE_RATE, utilization_rate |-> 0,
     min_collateral_lock_time |-> LOCK_TIME]

initialize_treasury == [total_fees_collected |-> 0, governance_fund |-> 0]

initialize(acc) ==
    Ok([acc EXCEPT !.protocol_state = initialize_state,
                   !.protocol_treasury = initialize_treasury])

stake_collateral(acc, amount, zk_proof) ==
    IF ~verify_zk_proof(zk_proof) THEN Err("InvalidProof", acc)
    ELSE
    LET a1 == [acc EXCEPT !.borrower_account.encrypted_collateral =
                   update_encrypted_value(@, amount, TRUE)]
        total == checked_add(a1.collateral_pool.total_collateral, amount)
    IN IF ~total.some THEN Err("MathOverflow", a1)
       ELSE Ok([a1 EXCEPT !.collateral_pool.total_collateral = total.val])

\* Variant: the lock time must be exceeded, not just reached.
lock_time_met_strict(borrower_account, state, clock) ==
    borrower_account.borrow_timestamp > 0
        => clock - borrower_account.borrow_timestamp > state.min_collateral_lock_time

\* Variant: no lock check at all.
lock_time_met_off(borrower_account, state, clock) == TRUE

\* Flash loan protection: passes when there is no position or the lock time has gone by.
lock_time_met(borrower_account, state, clock) ==
    borrower_account.borrow_timestamp > 0
        => clock - borrower_account.borrow_timestamp >= state.min_collateral_lock_time

\* Variant: the amount lent is not taken from the liquidity.
state_after_borrow_keeps_liquidity(state, amount) ==
    LET loans == checked_add(state.total_loans, amount)
        liq   == checked_sub(state.total_liquidity, amount)
    IN IF ~loans.some \/ ~liq.some THEN None
       ELSE Some([state EXCEPT
                    !.total_loans = loans.val,
                    !.utilization_rate =
                        calculate_utilization(loans.val, state.total_liquidity)])

\* Variant: the liquidity subtraction wraps instead of failing.
state_after_borrow_wrapping(state, amount) ==
    LET loans == checked_add(state.total_loans, amount)
        liq   == Some(state.total_liquidity - amount)
    IN IF ~loans.some \/ ~liq.some THEN None
       ELSE Some([state EXCEPT
                    !.total_loans = loans.val,
                    !.total_liquidity = liq.val,
                    !.utilization_rate = 0])

\* Variant: the liquidity is reduced by the net amount released.
state_after_borrow_net(state, amount) ==
    LET loans == checked_add(state.total_loans, amount)
        liq   == checked_sub(state.total_liquidity, amount - (amount \div 100))
    IN IF ~loans.some \/ ~liq.some THEN None
       ELSE Some([state EXCEPT
                    !.total_loans = loans.val,
                    !.total_liquidity = liq.val,
                    !.utilization_rate = calculate_utilization(loans.val, liq.val)])

\* The protocol state after a borrow of `amount`, or None on overflow.
state_after_borrow(state, amount) ==
    LET loans == checked_add(state.total_loans, amount)
        liq   == checked_sub(state.total_liquidity, amount)
    IN IF ~loans.some \/ ~liq.some THEN None
       ELSE Some([state EXCEPT
                    !.total_loans = loans.val,
                    !.total_liquidity = liq.val,
                    !.utilization_rate = calculate_utilization(loans.val, liq.val)])

\* Variant: the fee is a tenth of a percent.
borrow_fee_per_mille(amount) == checked_div(amount, 1000)

\* amount.checked_div(100): the 1% borrow fee.
borrow_fee(amount) == checked_div(amount, FEE_DIVISOR)

\* A handler result, with the tokens its transfer moved from the lending pool
\* escrow to the borrower on the way.
Transferred(out, net_amount) ==
    [res |-> out.res, acc |-> out.acc, released |-> net_amount]

\* The steps the three borrow variants share, from the lock check on.
borrow_steps(acc, amount, clock) ==
    IF ~lock_time_met(acc.borrower_account, acc.protocol_state, clock)
    THEN Err("CollateralLockTimeNotMet", acc)
    ELSE
    LET a1 == [acc EXCEPT !.borrower_account.borrow_timestamp = clock]
    IN IF ~has_sufficient_collateral(a1.borrower_account.encrypted_collateral, amount)
       THEN Err("InsufficientCollateral", a1)
       ELSE
       LET fee == borrow_fee(amount)
           net_amount == IF fee.some THEN checked_sub(amount, fee.val) ELSE None
       IN IF ~fee.some \/ ~net_amount.some THEN Err("MathOverflow", a1)
          ELSE
          LET fees == checked_add(a1.protocol_treasury.total_fees_collected, fee.val)
          IN IF ~fees.some THEN Transferred(Err("MathOverflow", a1), net_amount.val)
             ELSE
             LET a2 == [a1 EXCEPT
                          !.protocol_treasury.total_fees_collected = fees.val,
                          !.borrower_account.encrypted_borrowed =
                              update_encrypted_value(@, amount, TRUE)]
                 st == state_after_borrow(a2.protocol_state, amount)
             IN IF ~st.some
                THEN Transferred(
                         Err("MathOverflow",
                             IF checked_add(a2.protocol_state.total_loans, amount).some
                             THEN [a2 EXCEPT !.protocol_state.total_loans = @ + amount]
                             ELSE a2),
                         net_amount.val)
                ELSE Transferred(Ok([a2 EXCEPT !.protocol_state = st.val]),
                                 net_amount.val)

borrow(acc, amount, zk_proof, clock) ==
    IF ~verify_zk_proof(zk_proof) THEN Err("InvalidProof", acc)
    ELSE borrow_steps(acc, amount, clock)

\* Variant: the whitelist is not consulted.
institutional_borrow_open(acc, signer, amount, zk_proof, clock) ==
    IF ~verify_zk_proof(zk_proof) THEN Err("InvalidProof", acc)
    ELSE borrow_steps(acc, amount, clock)

institutional_borrow(acc, signer, amount, zk_proof, clock) ==
    IF ~verify_zk_proof(zk_proof) THEN Err("InvalidProof", acc)
    ELSE IF signer \notin acc.institutional_pool.zk_whitelist
         THEN Err("UnauthorizedBorrower", acc)
         ELSE borrow_steps(acc, amount, clock)

\* Variant: the ceiling itself is refused.
delegated_check_strict(delegated, signer, amount) ==
    IF delegated.delegate # signer THEN "UnauthorizedBorrower"
    ELSE IF u64_le(delegated.max_borrow_amount, amount) THEN "BorrowLimitExceeded"
    ELSE "Ok"

\* The delegate check and the credit-line ceiling.
delegated_check(delegated, signer, amount) ==
    IF delegated.delegate # signer THEN "UnauthorizedBorrower"
    ELSE IF ~u64_le(amount, delegated.max_borrow_amount) THEN "BorrowLimitExceeded"
    ELSE "Ok"

delegated_borrow(acc, signer, amount, zk_proof, clock) ==
    IF ~verify_zk_proof(zk_proof) THEN Err("InvalidProof", acc)
    ELSE IF delegated_check(acc.delegated_borrower, signer, amount) # "Ok"
         THEN Err(delegated_check(acc.delegated_borrower, signer, amount), acc)
         ELSE borrow_steps(acc, amount, clock)

\* Variant: the rate is taken as a fraction, not a percentage.
interest_due_no_percent(principal, rate, time_elapsed) ==
    LET v == principal * rate
    IN IF v = 0 \/ time_elapsed = 0 THEN Some(0)
       ELSE IF IsHigh(time_elapsed) THEN None
       ELSE Some(mul_divmod(v, time_elapsed, SECONDS_PER_YEAR)[1])

\* principal * rate * (time_elapsed as u64) / (31_536_000 * 100), checked.
\* The product of low-band factors is below 2^64; a negative time_elapsed
\* casts to the high band, where the product overflows unless it is zero
\* (the rate is 5, so a non-zero principal * rate is at least 2).
interest_due(principal, rate, time_elapsed) ==
    LET v == principal * rate
    IN IF v = 0 \/ time_elapsed = 0 THEN Some(0)
       ELSE IF IsHigh(time_elapsed) THEN None
       ELSE Some(mul_divmod(v, time_elapsed, SECONDS_PER_YEAR)[1] \div 100)

\* Variant: the repaid principal stays in total_loans.
state_after_repay_keeps_loans(state, principal, amount) ==
    LET liq == checked_add(state.total_liquidity, amount)
    IN IF ~liq.some THEN None
       ELSE Some([state EXCEPT
                    !.total_liquidity = liq.val,
                    !.utilization_rate =
                        calculate_utilization(state.total_loans, liq.val)])

\* Variant: the liquidity grows by the principal only.
state_after_repay_principal(state, principal, amount) ==
    LET loans == checked_sub(state.total_loans, principal)
        liq   == checked_add(state.total_liquidity, principal)
    IN IF ~loans.some \/ ~liq.some THEN None
       ELSE Some([state EXCEPT
                    !.total_loans = loans.val,
                    !.total_liquidity = liq.val,
                    !.utilization_rate = calculate_utilization(loans.val, liq.val)])

\* The protocol state after a repay, or None on overflow.
state_after_repay(state, principal, amount) ==
    LET loans == checked_sub(state.total_loans, principal)
        liq   == checked_add(state.total_liquidity, amount)
    IN IF ~loans.some \/ ~liq.some THEN None
       ELSE Some([state EXCEPT
                    !.total_loans = loans.val,
                    !.total_liquidity = liq.val,
                    !.utilization_rate = calculate_utilization(loans.val, liq.val)])

\* amount >= total_due
covers_total_due(amount, total_due) == u64_le(total_due, amount)

\* The borrower account after a repay: debt cleared, timestamp reset.
closed_position(borrower_account) ==
    [borrower_account EXCEPT !.encrypted_borrowed = reset_encryption,
                             !.borrow_timestamp = 0]

\* now.checked_sub(borrow_timestamp).unwrap_or(0): i64::checked_sub is None
\* only on i64 overflow, which clock values and timestamps never reach, so
\* the result is the plain difference, negative for a later timestamp.
time_elapsed_since(clock, borrow_timestamp) == clock - borrow_timestamp

repay(acc, amount, clock) ==
    LET time_elapsed == time_elapsed_since(clock, acc.borrower_account.borrow_timestamp)
        principal == acc.borrower_account.encrypted_borrowed
        interest == interest_due(principal, acc.protocol_state.base_interest_rate,
                                 time_elapsed)
        total_due == IF interest.some THEN checked_add(principal, interest.val) ELSE None
    IN IF ~interest.some \/ ~total_due.some THEN Err("MathOverflow", acc)
       ELSE IF ~covers_total_due(amount, total_due.val) THEN Err("RepayExceedsBorrow", acc)
       ELSE
       LET reward == checked_div(amount, 100)
           rewards == IF reward.some
                      THEN checked_add(acc.lending_pool.lender_rewards, reward.val)
                      ELSE None
       IN IF ~reward.some \/ ~rewards.some THEN Err("MathOverflow", acc)
          ELSE
          LET a1 == [acc EXCEPT
                       !.lending_pool.lender_rewards = rewards.val,
                       !.borrower_account = closed_position(@)]
              st == state_after_repay(a1.protocol_state, principal, amount)
          IN IF ~st.some
             THEN Err("MathOverflow",
                      IF checked_sub(a1.protocol_state.total_loans, principal).some
                      THEN [a1 EXCEPT !.protocol_state.total_loans = @ - principal]
                      ELSE a1)
             ELSE Ok([a1 EXCEPT !.protocol_state = st.val])

\* Variant: the gate compares the collateral with the debt.
liquidation_allowed_undercollateralized(borrower_account) ==
    ~has_sufficient_collateral(borrower_account.encrypted_collateral,
                               borrower_account.encrypted_borrowed)

\* Variant: the gate without its negation.
liquidation_allowed_unnegated(borrower_account) ==
    has_sufficient_collateral(borrower_account.encrypted_collateral, 0)

\* The liquidation gate: the collateral must fail a zero-amount sufficiency probe.
liquidation_allowed(borrower_account) ==
    ~has_sufficient_collateral(borrower_account.encrypted_collateral, 0)

liquidate(acc, zk_proof) ==
    IF ~verify_zk_proof(zk_proof) THEN Err("InvalidProof", acc)
    ELSE IF ~liquidation_allowed(acc.borrower_account)
         THEN Err("LiquidationNotAllowed", acc)
         ELSE
         LET current_collateral ==
                 extract_value_from_encryption(acc.borrower_account.encrypted_collateral)
             liquidate_amount == current_collateral \div 2
             a1 == [acc EXCEPT !.borrower_account.encrypted_collateral =
                        update_encrypted_value(@, liquidate_amount, FALSE)]
             total == checked_sub(a1.collateral_pool.total_collateral, liquidate_amount)
         IN IF ~total.some THEN Err("MathOverflow", a1)
            ELSE Ok([a1 EXCEPT !.collateral_pool.total_collateral = total.val])

propose_change(acc, proposal_type, new_value) ==
    LET id == checked_add(acc.governance.proposal_id, 1)
    IN IF ~id.some THEN Err("MathOverflow", acc)
       ELSE Ok([acc EXCEPT !.governance.proposal_id = id.val,
                           !.governance.proposal_type = proposal_type,
                           !.governance.new_value = new_value,
                           !.governance.votes = 0])

\* Variant: a vote against is not counted.
vote_counts_yes_only(acc, signer, proposal_id, v) ==
    IF signer \notin acc.institutional_pool.zk_whitelist
    THEN Err("UnauthorizedVoter", acc)
    ELSE IF acc.governance.proposal_id # proposal_id THEN Err("InvalidProposal", acc)
    ELSE Ok([acc EXCEPT !.governance.votes = IF v THEN @ + 1 ELSE @])

\* Variant: a vote uses up the voter's place in the whitelist.
vote_spends_membership(acc, signer, proposal_id, v) ==
    IF signer \notin acc.institutional_pool.zk_whitelist
    THEN Err("UnauthorizedVoter", acc)
    ELSE IF acc.governance.proposal_id # proposal_id THEN Err("InvalidProposal", acc)
    ELSE Ok([acc EXCEPT !.governance.votes = IF v THEN @ + 1 ELSE @ - 1,
                        !.institutional_pool.zk_whitelist = @ \ {signer}])

vote(acc, signer, proposal_id, v) ==
    IF signer \notin acc.institutional_pool.zk_whitelist
    THEN Err("UnauthorizedVoter", acc)
    ELSE IF acc.governance.proposal_id # proposal_id THEN Err("InvalidProposal", acc)
    ELSE LET votes == IF v THEN i64_checked_add(acc.governance.votes, 1)
                      ELSE i64_checked_sub(acc.governance.votes, 1)
         IN IF ~votes.some THEN Err("MathOverflow", acc)
            ELSE Ok([acc EXCEPT !.governance.votes = votes.val])

rebalance_collateral(acc, additional_collateral, zk_proof) ==
    IF ~verify_zk_proof(zk_proof) THEN Err("InvalidProof", acc)
    ELSE Ok([acc EXCEPT !.borrower_account.encrypted_collateral =
                 update_encrypted_value(@, additional_collateral, TRUE)])

----------------------------------------------------------------------------
(* Instruction dispatch *)

\* A zeroed BorrowerAccount.
NoAccount ==
    [encrypted_collateral |-> 0, encrypted_borrowed |-> 0, borrow_timestamp |-> 0]

\* The record types the program declares, Governance aside (a Governance
\* record carries its own `initialized` mark).
Records == {"protocol_state", "protocol_treasury", "lending_pool", "collateral_pool",
            "institutional_pool", "delegated_borrower", "borrower_account"}

\* The values the record variables hold while no such account exists.
NoState ==
    [total_collateral |-> 0, total_loans |-> 0, total_liquidity |-> 0,
     base_interest_rate |-> 0, utilization_rate |-> 0, min_collateral_lock_time |-> 0]
NoTreasury == [total_fees_collected |-> 0, governance_fund |-> 0]
NoLendingPool == [lender_rewards |-> 0]
NoCollateralPool == [total_collateral |-> 0]
NoInstitutionalPool == [zk_whitelist |-> {}]
NoDelegatedBorrower == [delegator |-> "none", delegate |-> "none", max_borrow_amount |-> 0]

\* The bytes the fields of a record take when serialized: 8 for a u64 or an
\* i64, 1 for a u8.
ProtocolStateSize == 8 + 8 + 8 + 1 + 1 + 8
ProtocolTreasurySize == 8 + 8
GovernanceSize == 8 + 1 + 8 + 8

\* An account declared with `init` is created by the instruction itself, with
\* the declared space, and the record is deserialized from it before the
\* handler runs: refused when the address already holds an account, and when
\* the record does not fit in the space.
InitConstraint(exists, space, size) ==
    IF exists THEN "AccountAlreadyInUse"
    ELSE IF size > space THEN "AccountDidNotDeserialize"
    ELSE "Ok"

\* The records of the program that the context of an instruction declares as
\* existing accounts.
Accounts(op) ==
    CASE op = "stake_collateral" -> {"borrower_account", "collateral_pool"}
      [] op = "borrow" -> {"borrower_account", "lending_pool", "protocol_state",
                            "protocol_treasury"}
      [] op = "institutional_borrow" -> {"borrower_account", "lending_pool",
                            "protocol_state", "protocol_treasury", "institutional_pool"}
      [] op = "delegated_borrow" -> {"borrower_account", "lending_pool",
                            "protocol_state", "protocol_treasury", "delegated_borrower"}
      [] op = "repay" -> {"borrower_account", "lending_pool", "protocol_state",
                           "protocol_treasury"}
      [] op = "liquidate" -> {"borrower_account", "collateral_pool"}
      [] op = "rebalance_collateral" -> {"borrower_account"}
      [] op = "vote" -> {"institutional_pool"}
      [] OTHER -> {}

\* An instruction is refused before its handler runs when an account of its
\* context does not exist.
AccountsConstraint(op) ==
    IF Accounts(op) \subseteq created THEN "Ok" ELSE "AccountNotInitialized"

\* The accounts an instruction on the borrower account at `addr` is given.
Load(addr) ==
    [borrower_account   |-> borrower_accounts[addr],
     protocol_state     |-> protocol_state,
     protocol_treasury  |-> protocol_treasury,
     lending_pool       |-> lending_pool,
     collateral_pool    |-> collateral_pool,
     institutional_pool |-> institutional_pool,
     delegated_borrower |-> delegated_borrower]

\* The execution contract of the runtime the program is written for, which is
\* no code of lib.rs: the accounts are written back only when the handler
\* returns Ok; on an error the transaction is aborted and the stored accounts
\* stay as they were.
Exit(pre, out) == IF out.res = "Ok" THEN out.acc ELSE pre

BorrowOps == {"borrow", "institutional_borrow", "delegated_borrow"}

\* Model bound: the values a step may leave in the records.
WithinBounds(acc) ==
    /\ IsHigh(acc.borrower_account.encrypted_collateral)
         \/ acc.borrower_account.encrypted_collateral <= MaxCollateral
    /\ acc.collateral_pool.total_collateral <= MaxCollateral
    /\ acc.protocol_state.total_liquidity <= MaxLiquidity
    /\ acc.protocol_treasury.total_fees_collected <= MaxFees
    /\ acc.lending_pool.lender_rewards <= MaxRewards

\* The outcome of an instruction: that of its handler when the accounts of
\* its context exist, the refusal otherwise.
Validated(op, addr, handled) ==
    IF Accounts(op) \subseteq created THEN handled
    ELSE Err(AccountsConstraint(op), Load(addr))

Complete(op, signer, addr, amount, out) ==
    LET post == Exit(Load(addr), out)
        ok == out.res = "Ok"
    IN /\ WithinBounds(post)
       /\ borrower_accounts' = [borrower_accounts EXCEPT ![addr] = post.borrower_account]
       /\ protocol_state' = post.protocol_state
       /\ protocol_treasury' = post.protocol_treasury
       /\ lending_pool' = post.lending_pool
       /\ collateral_pool' = post.collateral_pool
       /\ institutional_pool' = post.institutional_pool
       /\ delegated_borrower' = post.delegated_borrower
       /\ last' = [op |-> op, signer |-> signer, account |-> addr, amount |-> amount,
                   vote |-> FALSE, res |-> out.res, dirty |-> out.acc # Load(addr),
                   before |-> borrower_accounts[addr],
                   released |-> IF ok /\ "released" \in DOMAIN out
                                THEN out.released ELSE 0]
       /\ borrowed_at' = IF ok /\ op \in BorrowOps
                         THEN [borrowed_at EXCEPT ![addr] = now] ELSE borrowed_at
       /\ repaid_since' = IF ok /\ op \in BorrowOps
                          THEN [repaid_since EXCEPT ![addr] = FALSE]
                          ELSE IF ok /\ op = "repay"
                               THEN [repaid_since EXCEPT ![addr] = TRUE]
                               ELSE repaid_since
       /\ UNCHANGED <<now, created, governance>>

Process(op, signer, addr, amount, handled) ==
    Complete(op, signer, addr, amount, Validated(op, addr, handled))

\* A Governance account that propose_change has not created yet.
NoGovernance ==
    [initialized |-> FALSE, proposal_id |-> 0, proposal_type |-> 0, new_value |-> 0,
     votes |-> 0]

\* The accounts a governance instruction on the record at `g` is given.
LoadGovernance(g) ==
    [governance |-> governance[g], institutional_pool |-> institutional_pool]

\* ProposeChange declares the governance account with `init`: the record is
\* created, zeroed, by the instruction itself, which is refused when the
\* address already holds one.  Vote takes an existing record.
AccountConstraint(op, g) ==
    IF op = "propose_change"
    THEN InitConstraint(governance[g].initialized, GOVERNANCE_SPACE, GovernanceSize)
    ELSE (IF governance[g].initialized THEN AccountsConstraint(op)
          ELSE "AccountNotInitialized")

ProcessGovernance(op, signer, g, arg, v, pre, out) ==
    LET post == Exit(LoadGovernance(g), out)
    IN /\ post.governance.votes <= MaxVotes
       /\ 0 - post.governance.votes <= MaxDownVotes
       /\ governance' = [governance EXCEPT ![g] = post.governance]
       /\ institutional_pool' = post.institutional_pool
       /\ last' = [op |-> op, signer |-> signer, account |-> g, amount |-> arg,
                   vote |-> v, res |-> out.res, dirty |-> out.acc # pre,
                   before |-> NoAccount, released |-> 0]
       /\ UNCHANGED <<now, created, protocol_state, protocol_treasury, lending_pool,
                      collateral_pool, delegated_borrower, borrower_accounts,
                      borrowed_at, repaid_since>>

\* Initialize declares both of its records with `init`, ProtocolState first.
InitializeConstraint ==
    LET state == InitConstraint("protocol_state" \in created, PROTOCOL_STATE_SPACE,
                                ProtocolStateSize)
    IN IF state # "Ok" THEN state
       ELSE InitConstraint("protocol_treasury" \in created, PROTOCOL_TREASURY_SPACE,
                           ProtocolTreasurySize)

Initialize ==
    LET pre == [protocol_state |-> protocol_state,
                protocol_treasury |-> protocol_treasury]
        out == IF InitializeConstraint # "Ok" THEN Err(InitializeConstraint, pre)
               ELSE initialize(pre)
        post == Exit(pre, out)
    IN /\ protocol_state' = post.protocol_state
       /\ protocol_treasury' = post.protocol_treasury
       /\ created' = IF out.res = "Ok"
                     THEN created \cup {"protocol_state", "protocol_treasury"}
                     ELSE created
       /\ last' = [op |-> "initialize", signer |-> "any", account |-> "none",
                   amount |-> 0, vote |-> FALSE, res |-> out.res,
                   dirty |-> out.acc # pre, before |-> NoAccount, released |-> 0]
       /\ UNCHANGED <<now, lending_pool, collateral_pool, institutional_pool,
                      delegated_borrower, borrower_accounts, governance,
                      borrowed_at, repaid_since>>

\* No instruction of the program brings a ProtocolState, ProtocolTreasury,
\* LendingPool, CollateralPool, InstitutionalLendingPool, DelegatedBorrower or
\* BorrowerAccount record into existence: initialize is refused by its own
\* space constraint and the other record types are created nowhere.  The
\* lending instructions are specified on records that exist, so this step
\* supplies them from outside the program: ProtocolState and ProtocolTreasury
\* with the values the handler of initialize assigns, the counters of the
\* other records at zero, one whitelisted participant and one delegation.
Provision ==
    /\ created = {}
    /\ created' = Records
    /\ protocol_state' = initialize_state
    /\ protocol_treasury' = initialize_treasury
    /\ lending_pool' = [lender_rewards |-> 0]
    /\ collateral_pool' = [total_collateral |-> 0]
    /\ institutional_pool' = [zk_whitelist |-> {"alice"}]
    /\ delegated_borrower' = [delegator |-> "alice", delegate |-> "bob",
                              max_borrow_amount |-> 400]
    /\ borrower_accounts' = [a \in AllAddresses |-> NoAccount]
    /\ last' = [op |-> "provision", signer |-> "none", account |-> "none",
                amount |-> 0, vote |-> FALSE, res |-> "Ok", dirty |-> FALSE,
                before |-> NoAccount, released |-> 0]
    /\ UNCHANGED <<now, governance, borrowed_at, repaid_since>>

NoProof == <<>>

\* Recorded for the instructions whose handler never reads the signer.
AnySigner == "any"

StakeCollateral ==
    \E a \in Addresses, amount \in StakeAmounts :
        Process("stake_collateral", AnySigner, a, amount,
                stake_collateral(Load(a), amount, NoProof))

Borrow ==
    \E a \in Addresses, amount \in BorrowAmounts :
        Process("borrow", AnySigner, a, amount, borrow(Load(a), amount, NoProof, now))

InstitutionalBorrow ==
    \E s \in Signers, a \in Addresses, amount \in BorrowAmounts :
        Process("institutional_borrow", s, a, amount,
                institutional_borrow(Load(a), s, amount, NoProof, now))

DelegatedBorrow ==
    \E s \in Signers, a \in Addresses, amount \in DelegatedAmounts :
        Process("delegated_borrow", s, a, amount,
                delegated_borrow(Load(a), s, amount, NoProof, now))

Repay ==
    \E a \in Addresses, amount \in RepayAmounts :
        Process("repay", AnySigner, a, amount, repay(Load(a), amount, now))

Liquidate ==
    \E a \in Addresses :
        Process("liquidate", AnySigner, a, 0, liquidate(Load(a), NoProof))

RebalanceCollateral ==
    \E a \in Addresses, amount \in RebalanceAmounts :
        Process("rebalance_collateral", AnySigner, a, amount,
                rebalance_collateral(Load(a), amount, NoProof))

\* The same instructions on the second borrower account.
StakeCollateralOther ==
    \E a \in OtherAddresses, amount \in StakeAmounts :
        Process("stake_collateral", AnySigner, a, amount,
                stake_collateral(Load(a), amount, NoProof))

BorrowOther ==
    \E a \in OtherAddresses, amount \in OtherBorrowAmounts :
        Process("borrow", AnySigner, a, amount, borrow(Load(a), amount, NoProof, now))

RepayOther ==
    \E a \in OtherAddresses, amount \in RepayAmounts :
        Process("repay", AnySigner, a, amount, repay(Load(a), amount, now))

ProposeChange ==
    \E g \in GovAddresses, t \in ProposalTypes, nv \in NewValues :
        LET refused == AccountConstraint("propose_change", g) # "Ok"
            fresh == [LoadGovernance(g) EXCEPT
                        !.governance = [NoGovernance EXCEPT !.initialized = TRUE]]
        IN ProcessGovernance("propose_change", AnySigner, g, nv, FALSE,
               IF refused THEN LoadGovernance(g) ELSE fresh,
               IF refused
               THEN Err(AccountConstraint("propose_change", g), LoadGovernance(g))
               ELSE propose_change(fresh, t, nv))

Vote ==
    \E s \in Signers, g \in GovAddresses, id \in ProposalIds, v \in BOOLEAN :
        ProcessGovernance("vote", s, g, id, v, LoadGovernance(g),
            IF AccountConstraint("vote", g) # "Ok"
            THEN Err(AccountConstraint("vote", g), LoadGovernance(g))
            ELSE vote(LoadGovernance(g), s, id, v))

\* The clock moves forward between instructions.
Tick ==
    /\ \E t \in TimePoints : t > now /\ now' = t
    /\ last' = [op |-> "tick", signer |-> "none", account |-> "none", amount |-> 0,
                vote |-> FALSE, res |-> "Ok", dirty |-> FALSE, before |-> NoAccount,
                released |-> 0]
    /\ UNCHANGED <<ledger, borrowed_at, repaid_since>>

\* The program as deployed: no account of it exists.
Init ==
    /\ now = StartTime
    /\ created = {}
    /\ protocol_state = NoState
    /\ protocol_treasury = NoTreasury
    /\ lending_pool = NoLendingPool
    /\ collateral_pool = NoCollateralPool
    /\ institutional_pool = NoInstitutionalPool
    /\ delegated_borrower = NoDelegatedBorrower
    /\ borrower_accounts = [a \in AllAddresses |-> NoAccount]
    /\ governance = [g \in GovAddresses |-> NoGovernance]
    /\ last = [op |-> "deploy", signer |-> "none", account |-> "none", amount |-> 0,
               vote |-> FALSE, res |-> "Ok", dirty |-> FALSE, before |-> NoAccount,
               released |-> 0]
    /\ borrowed_at = [a \in AllAddresses |-> 0]
    /\ repaid_since = [a \in AllAddresses |-> FALSE]

\* The whole program.
Next ==
    \/ Initialize
    \/ Provision
    \/ StakeCollateral
    \/ Borrow
    \/ InstitutionalBorrow
    \/ DelegatedBorrow
    \/ Repay
    \/ Liquidate
    \/ RebalanceCollateral
    \/ ProposeChange
    \/ Vote
    \/ Tick

Spec == Init /\ [][Next]_vars

\* The lending instructions alone: the governance instructions touch no
\* record these read or write, and none of these touches a Governance record.
LendingNext ==
    \/ Initialize
    \/ Provision
    \/ StakeCollateral
    \/ Borrow
    \/ InstitutionalBorrow
    \/ DelegatedBorrow
    \/ Repay
    \/ Liquidate
    \/ RebalanceCollateral
    \/ Tick

LendingSpec == Init /\ [][LendingNext]_vars

\* The governance instructions alone.
GovernanceNext ==
    \/ Initialize
    \/ Provision
    \/ ProposeChange
    \/ Vote
    \/ Tick

GovernanceSpec == Init /\ [][GovernanceNext]_vars

\* The lending instructions with delegated_borrow as the only borrow variant:
\* every debt recorded in these behaviours was drawn by the delegate.
DelegatedNext ==
    \/ Initialize
    \/ Provision
    \/ StakeCollateral
    \/ DelegatedBorrow
    \/ Repay
    \/ Liquidate
    \/ RebalanceCollateral
    \/ Tick

DelegatedSpec == Init /\ [][DelegatedNext]_vars

\* Two borrower accounts against the one ProtocolState: stake, borrow and
\* repay on each.
TwoAccountNext ==
    \/ Initialize
    \/ Provision
    \/ StakeCollateral
    \/ Borrow
    \/ Repay
    \/ StakeCollateralOther
    \/ BorrowOther
    \/ RepayOther
    \/ Tick

TwoAccountSpec == Init /\ [][TwoAccountNext]_vars

\* The clock is a sysvar the runtime hands to the program, which has no say in
\* its value: here it reports an earlier time than it did before.
ClockSetBack ==
    /\ \E t \in TimePoints : t < now /\ now' = t
    /\ last' = [op |-> "tick", signer |-> "none", account |-> "none", amount |-> 0,
                vote |-> FALSE, res |-> "Ok", dirty |-> FALSE, before |-> NoAccount,
                released |-> 0]
    /\ UNCHANGED <<ledger, borrowed_at, repaid_since>>

\* The lending instructions under a clock that may also step back.
SkewedClockNext == LendingNext \/ ClockSetBack

SkewedClockSpec == Init /\ [][SkewedClockNext]_vars

----------------------------------------------------------------------------
(* Properties *)

\* floor(principal * rate * elapsed / (31,536,000 * 100)), the interest formula.
InterestFormula(principal, rate, elapsed) ==
    mul_divmod(elapsed, principal * rate, SECONDS_PER_YEAR)[1] \div 100

\* The last step was instruction `op`, given accounts that exist.
Did(op) == last'.op = op /\ last'.res # "AccountNotInitialized"
\* The borrower account the last step's instruction was given, before the step.
Target == borrower_accounts[last'.account]
\* The same account after the step.
TargetAfter == borrower_accounts'[last'.account]

\* The signer and amount pass the variant's own authorization checks.
Authorized ==
    \/ Did("borrow")
    \/ Did("institutional_borrow") /\ last'.signer \in institutional_pool.zk_whitelist
    \/ /\ Did("delegated_borrow")
       /\ last'.signer = delegated_borrower.delegate
       /\ last'.amount <= delegated_borrower.max_borrow_amount

\* C1: in every reachable state utilization_rate is floor(total_loans * 100 /
\* total_liquidity) when total_liquidity > 0 and 0 otherwise, unclamped.
C1_UtilizationIsFloorRatio ==
    protocol_state.utilization_rate =
        IF protocol_state.total_liquidity > 0
        THEN (protocol_state.total_loans * 100) \div protocol_state.total_liquidity
        ELSE 0

\* C2: every successful borrow of any variant adds the requested amount to
\* total_loans and takes it from total_liquidity.
C2_BorrowConservation ==
    [][(last'.op \in BorrowOps /\ last'.res = "Ok")
         => /\ protocol_state'.total_loans = protocol_state.total_loans + last'.amount
            /\ protocol_state'.total_liquidity =
                   protocol_state.total_liquidity - last'.amount]_vars

C2_Witness ==
    /\ last.op = "institutional_borrow" /\ last.res = "Ok" /\ last.amount = 400
    /\ protocol_state.total_loans = 800

\* C3: every successful repay takes the borrower's recorded debt from
\* total_loans and adds the full amount paid to total_liquidity.
C3_RepayConservation ==
    [][(Did("repay") /\ last'.res = "Ok")
         => /\ protocol_state'.total_loans =
                   protocol_state.total_loans - Target.encrypted_borrowed
            /\ protocol_state'.total_liquidity =
                   protocol_state.total_liquidity + last'.amount]_vars

C3_Witness ==
    /\ last.op = "repay" /\ last.res = "Ok" /\ last.amount = 420
    /\ last.before.encrypted_borrowed = 400
    /\ now - last.before.borrow_timestamp < SECONDS_PER_YEAR

\* C5: a repay below principal + interest fails with RepayExceedsBorrow; a
\* repay of exactly principal + interest succeeds and leaves debt and
\* timestamp at 0.
C5_RepayCompleteness ==
    [][Did("repay")
         => LET principal == Target.encrypted_borrowed
                elapsed == now - Target.borrow_timestamp
                due == principal + InterestFormula(
                           principal, protocol_state.base_interest_rate, elapsed)
            IN /\ last'.amount < due => last'.res = "RepayExceedsBorrow"
               /\ last'.amount = due
                    => /\ last'.res = "Ok"
                       /\ TargetAfter.encrypted_borrowed = 0
                       /\ TargetAfter.borrow_timestamp = 0]_vars

\* A debt of 400 held for a year was repaid with exactly 400 + 20.
C5_Witness ==
    /\ last.op = "repay" /\ last.res = "Ok" /\ last.amount = 420
    /\ last.before.encrypted_borrowed = 400
    /\ now - last.before.borrow_timestamp = SECONDS_PER_YEAR
    /\ borrower_accounts[last.account].encrypted_borrowed = 0
    /\ borrower_accounts[last.account].borrow_timestamp = 0

\* C6: after a successful borrow at time t with no repay since, an authorized
\* borrow attempt of any variant at t' fails with CollateralLockTimeNotMet when
\* t' - t < min_collateral_lock_time; at t' - t >= min_collateral_lock_time it
\* is not rejected by the lock and succeeds given collateral and liquidity.
C6_LockBoundary ==
    [][(last'.op \in BorrowOps /\ Authorized
        /\ borrowed_at[last'.account] > 0 /\ ~repaid_since[last'.account])
         => LET waited == now - borrowed_at[last'.account]
                lock == protocol_state.min_collateral_lock_time
            IN /\ waited < lock => last'.res = "CollateralLockTimeNotMet"
               /\ waited >= lock => last'.res # "CollateralLockTimeNotMet"
               /\ (/\ waited >= lock
                   /\ u64_le(last'.amount, Target.encrypted_collateral)
                   /\ last'.amount <= protocol_state.total_liquidity)
                    => last'.res = "Ok"]_vars

\* A second borrow went through exactly min_collateral_lock_time after the first.
C6_Witness ==
    /\ last.op = "delegated_borrow" /\ last.res = "Ok"
    /\ last.before.borrow_timestamp > 0
    /\ now - last.before.borrow_timestamp = LOCK_TIME
    /\ last.before.encrypted_borrowed = 400

\* C7 as stated: over any sequence of operations, two successive successful
\* borrows against one account are at least min_collateral_lock_time apart.
C7_BorrowsAlwaysSeparated ==
    [][(last'.op \in BorrowOps /\ last'.res = "Ok" /\ borrowed_at[last'.account] > 0)
         => now - borrowed_at[last'.account]
                >= protocol_state.min_collateral_lock_time]_vars

\* C7 amended: two successive successful borrows against one account with no
\* successful repay between them are at least min_collateral_lock_time apart.
C7_BorrowsSeparatedUnlessRepaid ==
    [][(last'.op \in BorrowOps /\ last'.res = "Ok"
        /\ borrowed_at[last'.account] > 0 /\ ~repaid_since[last'.account])
         => now - borrowed_at[last'.account]
                >= protocol_state.min_collateral_lock_time]_vars

\* A second borrow succeeded on a position still open, with a stake in between.
C7_Witness ==
    /\ last.op \in BorrowOps /\ last.res = "Ok"
    /\ last.before.encrypted_borrowed = 400
    /\ last.before.encrypted_collateral = 800
    /\ borrower_accounts[last.account].encrypted_borrowed = 800

\* C8: for the delegate named in the DelegatedBorrower record, a
\* delegated_borrow of max_borrow_amount succeeds (lock time met, collateral
\* and liquidity sufficient), one above it fails with BorrowLimitExceeded, and
\* no delegated_borrow above max_borrow_amount ever succeeds.
C8_DelegatedCeiling ==
    [][Did("delegated_borrow")
         => LET max == delegated_borrower.max_borrow_amount
                delegate == last'.signer = delegated_borrower.delegate
            IN /\ (delegate /\ ~u64_le(last'.amount, max))
                    => last'.res = "BorrowLimitExceeded"
               /\ last'.res = "Ok" => (delegate /\ u64_le(last'.amount, max))
               /\ (/\ delegate /\ last'.amount = max
                   /\ lock_time_met(Target, protocol_state, now)
                   /\ u64_le(last'.amount, Target.encrypted_collateral)
                   /\ last'.amount <= protocol_state.total_liquidity)
                    => last'.res = "Ok"]_vars

C8_Witness ==
    /\ last.op = "delegated_borrow" /\ last.res = "Ok"
    /\ last.signer = delegated_borrower.delegate
    /\ last.amount = delegated_borrower.max_borrow_amount
    /\ last.before.encrypted_borrowed = 0

\* C9: liquidate on a borrower whose collateral is above 0 fails with
\* LiquidationNotAllowed and changes neither that collateral nor the pool total.
C9_LiquidateRefusedWithCollateral ==
    [][(Did("liquidate") /\ Target.encrypted_collateral # 0)
         => /\ last'.res = "LiquidationNotAllowed"
            /\ TargetAfter.encrypted_collateral = Target.encrypted_collateral
            /\ collateral_pool' = collateral_pool]_vars

C9_Witness ==
    /\ last.op = "liquidate" /\ last.res = "LiquidationNotAllowed"
    /\ borrower_accounts[last.account].encrypted_collateral = 400
    /\ borrower_accounts[last.account].encrypted_borrowed = 400

\* C10 as stated: liquidate on a borrower whose collateral is exactly 0
\* returns success and leaves collateral, debt and pool total unchanged.
C10_LiquidateProceedsAtZero ==
    [][(Did("liquidate") /\ Target.encrypted_collateral = 0)
         => /\ last'.res = "Ok"
            /\ TargetAfter = Target
            /\ collateral_pool' = collateral_pool]_vars

\* C10 amended: liquidate on a borrower whose collateral is exactly 0 fails
\* with LiquidationNotAllowed, like any other, and changes no record.
C10_LiquidateRefusedAtZero ==
    [][(Did("liquidate") /\ Target.encrypted_collateral = 0)
         => /\ last'.res = "LiquidationNotAllowed"
            /\ UNCHANGED ledger]_vars

C10_Witness ==
    /\ last.op = "liquidate" /\ last.res = "LiquidationNotAllowed"
    /\ last.before.encrypted_collateral = 0
    /\ collateral_pool.total_collateral = 0

\* The Governance record the last step's instruction was given, before and after.
GovTarget == governance[last'.account]
GovTargetAfter == governance'[last'.account]

\* C11: a vote by a whitelisted voter whose proposal_id differs from the
\* record's current proposal_id fails with InvalidProposal and leaves votes
\* unchanged, and every propose_change on a record strictly increases that
\* record's proposal_id (so an earlier proposal's id is rejected afterwards).
C11_SupersessionRejectsOldIds ==
    [][/\ (/\ Did("vote") /\ GovTarget.initialized
           /\ last'.signer \in institutional_pool.zk_whitelist
           /\ last'.amount # GovTarget.proposal_id)
            => /\ last'.res = "InvalidProposal"
               /\ GovTargetAfter.votes = GovTarget.votes
       /\ Did("propose_change")
            => GovTargetAfter.proposal_id > GovTarget.proposal_id]_vars

\* C12: initialize succeeds and, from the freshly initialized protocol,
\* stake_collateral(1000), then borrow(400), then repay(420) 31,536,000
\* seconds later all succeed: the borrow puts fee 4 in the treasury, sets the
\* debt and total_loans to 400 and takes 400 from total_liquidity; the repay
\* resets the debt to 0.
C12_EndToEndScenario ==
    [][/\ Did("initialize") => last'.res = "Ok"
       /\ (/\ Did("borrow") /\ last'.amount = 400
           /\ protocol_state = initialize_state
           /\ protocol_treasury = initialize_treasury
           /\ Target = [NoAccount EXCEPT !.encrypted_collateral = 1000])
            => /\ last'.res = "Ok"
               /\ protocol_treasury'.total_fees_collected = 4
               /\ TargetAfter.encrypted_borrowed = 400
               /\ protocol_state'.total_loans = 400
               /\ protocol_state'.total_liquidity = protocol_state.total_liquidity - 400
       /\ (/\ Did("repay") /\ last'.amount = 420
           /\ Target.encrypted_borrowed = 400
           /\ now - Target.borrow_timestamp = SECONDS_PER_YEAR)
            => /\ last'.res = "Ok"
               /\ TargetAfter.encrypted_borrowed = 0]_vars

\* C13: an institutional_borrow by a signer outside the InstitutionalLendingPool
\* whitelist fails with UnauthorizedBorrower and changes no record; every
\* successful institutional_borrow was made by a signer in the whitelist.
C13_InstitutionalWhitelist ==
    [][Did("institutional_borrow")
         => /\ last'.signer \notin institutional_pool.zk_whitelist
                 => /\ last'.res = "UnauthorizedBorrower"
                    /\ UNCHANGED ledger
            /\ last'.res = "Ok"
                 => last'.signer \in institutional_pool.zk_whitelist]_vars

\* An outsider was refused a borrow that collateral, liquidity and lock allowed.
C13_Witness ==
    /\ last.op = "institutional_borrow" /\ last.res = "UnauthorizedBorrower"
    /\ last.signer \notin institutional_pool.zk_whitelist
    /\ last.before.encrypted_collateral >= last.amount
    /\ protocol_state.total_liquidity >= last.amount
    /\ last.before.borrow_timestamp = 0

\* C14: in every reachable state each borrower's recorded debt
\* (encrypted_borrowed) is at most the recorded collateral (encrypted_collateral).
C14_OverCollateralized ==
    \A a \in Addresses :
        u64_le(borrower_accounts[a].encrypted_borrowed,
               borrower_accounts[a].encrypted_collateral)

\* C15: every successful stake_collateral(amount) increases the borrower's
\* encrypted_collateral by exactly amount and the CollateralPool's
\* total_collateral by exactly amount, an overflowing addition being an error
\* and never a silent drop.
C15_StakeAddsExactly ==
    [][(Did("stake_collateral") /\ last'.res = "Ok")
         => /\ checked_add(Target.encrypted_collateral, last'.amount)
                 = Some(TargetAfter.encrypted_collateral)
            /\ checked_add(collateral_pool.total_collateral, last'.amount)
                 = Some(collateral_pool'.total_collateral)]_vars

\* C16: every successful borrow of amount a, of any variant, releases exactly
\* a - floor(a / 100) to the borrower, adds floor(a / 100) to
\* total_fees_collected and adds the full a to the borrower's
\* encrypted_borrowed; no other step changes total_fees_collected, so it is
\* the sum of floor(a / 100) over the successful borrows.
C16_FeeAccounting ==
    [][IF last'.op \in BorrowOps /\ last'.res = "Ok"
       THEN LET a == last'.amount
                fee == a \div 100
            IN /\ last'.released = a - fee
               /\ protocol_treasury'.total_fees_collected =
                      protocol_treasury.total_fees_collected + fee
               /\ TargetAfter.encrypted_borrowed = Target.encrypted_borrowed + a
       ELSE /\ protocol_treasury'.total_fees_collected =
                   protocol_treasury.total_fees_collected
            /\ last'.released = 0]_vars

\* A borrow of 830: the fee is floor(8.3) = 8, 822 is released, the debt is 830.
C16_Witness ==
    /\ last.op \in BorrowOps /\ last.res = "Ok" /\ last.amount = 830
    /\ last.released = 822
    /\ protocol_treasury.total_fees_collected = 8
    /\ borrower_accounts[last.account].encrypted_borrowed = 830

\* C17: a borrow of any variant whose amount exceeds total_liquidity, all
\* earlier checks passing, fails with MathOverflow; no instruction ever
\* returns InsufficientLiquidity, and total_liquidity never wraps below zero.
C17_LiquidityUnderflowIsHard ==
    [][/\ (/\ last'.op \in BorrowOps /\ Authorized
           /\ lock_time_met(Target, protocol_state, now)
           /\ u64_le(last'.amount, Target.encrypted_collateral)
           /\ last'.amount > protocol_state.total_liquidity)
            => last'.res = "MathOverflow"
       /\ last'.res # "InsufficientLiquidity"
       /\ ~IsHigh(protocol_state'.total_liquidity)]_vars

\* A borrow covered by collateral asked for more than a non-empty pool held.
C17_Witness ==
    /\ last.op \in BorrowOps /\ last.res = "MathOverflow"
    /\ u64_le(last.amount, last.before.encrypted_collateral)
    /\ protocol_state.total_liquidity > 0
    /\ last.amount > protocol_state.total_liquidity

\* C18: a repay on a borrower whose borrow_timestamp is later than the clock,
\* or is zero, never fails with MathOverflow and succeeds when the amount
\* equals the principal (the elapsed time counts as 0, so no interest is due).
C18_FutureTimestampClamped ==
    [][(Did("repay") /\ (Target.borrow_timestamp > now \/ Target.borrow_timestamp = 0))
         => /\ last'.res # "MathOverflow"
            /\ last'.amount = Target.encrypted_borrowed => last'.res = "Ok"]_vars

\* C19: once the ProtocolState exists, no step changes base_interest_rate or
\* min_collateral_lock_time, and propose_change and vote change no record
\* other than the Governance record.
C19_GovernanceTallyOnly ==
    [][/\ "protocol_state" \in created
            => /\ protocol_state'.base_interest_rate =
                      protocol_state.base_interest_rate
               /\ protocol_state'.min_collateral_lock_time =
                      protocol_state.min_collateral_lock_time
       /\ last'.op \in {"propose_change", "vote"}
            => UNCHANGED <<protocol_state, protocol_treasury, lending_pool,
                           collateral_pool, institutional_pool, delegated_borrower,
                           borrower_accounts>>]_vars

\* A proposal to set the value 10 has been voted up twice, with loans
\* outstanding, and the rate is still 5 and the lock time still 600.
C19_Witness ==
    /\ last.op = "vote" /\ last.res = "Ok"
    /\ governance[last.account].new_value = 10
    /\ governance[last.account].votes = 2
    /\ protocol_state.total_loans > 0
    /\ protocol_state.base_interest_rate = BASE_RATE
    /\ protocol_state.min_collateral_lock_time = LOCK_TIME

\* C20: on an existing Governance record, a vote by a signer outside the
\* whitelist fails with UnauthorizedVoter; a whitelisted signer's vote on the
\* current proposal always succeeds, however often that signer has voted; a
\* successful vote changes votes by exactly +1 (true) or -1 (false); a
\* successful propose_change sets votes to 0 and no other step changes votes.
C20_EveryVoteCounts ==
    [][IF Did("vote") /\ GovTarget.initialized
       THEN /\ last'.signer \notin institutional_pool.zk_whitelist
                 => last'.res = "UnauthorizedVoter"
            /\ (/\ last'.signer \in institutional_pool.zk_whitelist
                /\ last'.amount = GovTarget.proposal_id)
                 => last'.res = "Ok"
            /\ GovTargetAfter.votes =
                   IF last'.res # "Ok" THEN GovTarget.votes
                   ELSE IF last'.vote THEN GovTarget.votes + 1
                   ELSE GovTarget.votes - 1
       ELSE \A g \in GovAddresses :
                governance'[g].votes =
                    IF Did("propose_change") /\ last'.account = g /\ last'.res = "Ok"
                    THEN 0 ELSE governance[g].votes]_vars

\* The only whitelisted identity has voted twice on one proposal: the tally
\* is larger than the whitelist.
C20_Witness ==
    /\ last.op = "vote" /\ last.res = "Ok" /\ last.signer = "alice"
    /\ institutional_pool.zk_whitelist = {"alice"}
    /\ governance[last.account].votes = 2
    /\ governance[last.account].votes > Cardinality(institutional_pool.zk_whitelist)

\* C21: rebalance_collateral(delta) adds delta to the borrower's
\* encrypted_collateral and changes nothing else: the borrower's debt and
\* borrow_timestamp, every CollateralPool total and the ProtocolState stay as
\* they were.
C21_RebalanceAddsToBorrowerOnly ==
    [][Did("rebalance_collateral")
         => /\ checked_add(Target.encrypted_collateral, last'.amount)
                 = Some(TargetAfter.encrypted_collateral)
            /\ TargetAfter.encrypted_borrowed = Target.encrypted_borrowed
            /\ TargetAfter.borrow_timestamp = Target.borrow_timestamp
            /\ collateral_pool' = collateral_pool
            /\ protocol_state' = protocol_state]_vars

\* C22: the outstanding debt the delegate has drawn through successful
\* delegated_borrow calls under the DelegatedBorrower record never exceeds
\* that record's max_borrow_amount.  (Stated for behaviours in which
\* delegated_borrow is the only borrow variant used, where the recorded debt
\* is the debt the delegate has drawn.)
C22_DelegatedDebtWithinCeiling ==
    \A a \in Addresses :
        u64_le(borrower_accounts[a].encrypted_borrowed,
               delegated_borrower.max_borrow_amount)

\* The sum of encrypted_borrowed over the borrower accounts in S.
RECURSIVE SumBorrowed(_)
SumBorrowed(S) ==
    IF S = {} THEN 0
    ELSE LET a == CHOOSE x \in S : TRUE
         IN borrower_accounts[a].encrypted_borrowed + SumBorrowed(S \ {a})

\* C23: in every reachable state total_loans is the sum of encrypted_borrowed
\* over all borrower accounts, so total_loans - principal in repay never
\* underflows.
C23_LoansAreSumOfDebts ==
    /\ protocol_state.total_loans = SumBorrowed(AllAddresses)
    /\ \A a \in AllAddresses :
           checked_sub(protocol_state.total_loans,
                       borrower_accounts[a].encrypted_borrowed).some

\* The second account repaid its debt of 20 while the first still owes 400:
\* total_loans went from 420 to 400.
C23_Witness ==
    /\ last.op = "repay" /\ last.res = "Ok" /\ last.account = "acctB"
    /\ last.before.encrypted_borrowed = 20
    /\ borrower_accounts["acctA"].encrypted_borrowed = 400
    /\ borrower_accounts["acctB"].encrypted_borrowed = 0
    /\ protocol_state.total_loans = 400

\* C24: no step decreases a borrower's encrypted_collateral or the
\* CollateralPool's total_collateral.
C24_CollateralNeverDecreases ==
    [][/\ \A a \in AllAddresses :
              u64_le(borrower_accounts[a].encrypted_collateral,
                     borrower_accounts'[a].encrypted_collateral)
       /\ u64_le(collateral_pool.total_collateral,
                 collateral_pool'.total_collateral)]_vars

\* A liquidation was tried on a position owing twice its collateral, and the
\* collateral is all still there.
C24_Witness ==
    /\ last.op = "liquidate" /\ last.res = "LiquidationNotAllowed"
    /\ last.before.encrypted_collateral = 400
    /\ last.before.encrypted_borrowed = 800
    /\ borrower_accounts[last.account].encrypted_collateral = 400
    /\ collateral_pool.total_collateral = 400

\* total_loans + total_liquidity, before and after a step.
Funds == protocol_state.total_loans + protocol_state.total_liquidity
FundsAfter == protocol_state'.total_loans + protocol_state'.total_liquidity

\* What a repay on the target account has to cover: principal plus interest.
TotalDue ==
    Target.encrypted_borrowed
        + InterestFormula(Target.encrypted_borrowed, protocol_state.base_interest_rate,
                          now - Target.borrow_timestamp)

\* total_loans + total_liquidity never decreases: a successful borrow leaves
\* it unchanged, a successful repay raises it by amount - principal >= 0, and
\* no other step changes either field.
FundsAccounting ==
    /\ FundsAfter >= Funds
    /\ (last'.op \in BorrowOps /\ last'.res = "Ok") => FundsAfter = Funds
    /\ (Did("repay") /\ last'.res = "Ok")
         => /\ last'.amount >= Target.encrypted_borrowed
            /\ FundsAfter = Funds + (last'.amount - Target.encrypted_borrowed)
    /\ ~(last'.op \in BorrowOps \cup {"repay"} /\ last'.res = "Ok")
         => /\ protocol_state'.total_loans = protocol_state.total_loans
            /\ protocol_state'.total_liquidity = protocol_state.total_liquidity

\* The step takes total_liquidity from 0 to a positive value.
LiquidityBecomesPositive ==
    protocol_state.total_liquidity = 0 /\ protocol_state'.total_liquidity > 0

\* C25 as stated: total_loans + total_liquidity never decreases (borrow leaves
\* it unchanged, repay raises it by amount - principal, nothing else changes
\* either field), and total_liquidity becomes positive only by a repay whose
\* amount exceeds the borrower's debt plus interest.
C25_LiquidityOnlyByOverpayment ==
    [][/\ FundsAccounting
       /\ LiquidityBecomesPositive
            => /\ Did("repay") /\ last'.res = "Ok"
               /\ last'.amount > TotalDue]_vars

\* C25 as amended: total_loans + total_liquidity never decreases (borrow
\* leaves it unchanged, repay raises it by amount - principal, nothing else
\* changes either field), and total_liquidity becomes positive only by a
\* successful repay, whose amount is at least the borrower's debt plus
\* interest and goes to total_liquidity in full.
C25_FundsNeverDecrease ==
    [][/\ FundsAccounting
       /\ LiquidityBecomesPositive
            => /\ Did("repay") /\ last'.res = "Ok"
               /\ last'.amount >= TotalDue
               /\ protocol_state'.total_liquidity = last'.amount]_vars

\* The pool was lent out completely and a repay of exactly the debt of 400,
\* in the second of the borrow, brought total_liquidity from 0 to 400.
C25_Witness ==
    /\ last.op = "repay" /\ last.res = "Ok" /\ last.amount = 400
    /\ last.before.encrypted_borrowed = 400
    /\ last.before.borrow_timestamp = now
    /\ protocol_state.total_loans = 0
    /\ protocol_state.total_liquidity = 400

====
